---- MODULE Spec2Model ----
(***************************************************************************)
(* Custom orchestration Lambda of the "Generate Dockerfile" agent          *)
(* (src/AWSLambdaFunctions/agentCodeBuildOrchestration/lambda_function.py) *)
(* driven by a host that follows START -> MODEL_INVOKED <-> TOOL_INVOKED   *)
(* -> FINISH.                                                              *)
(*                                                                         *)
(* A text is a sequence of tokens: a token is a character or an            *)
(* indivisible literal.  A JSON value is a record [t, s]: t = "str" with   *)
(* the text s, or t = "null".  A dict is a function whose DOMAIN is the    *)
(* set of keys present.  json.loads is represented by its result: a        *)
(* payload carries the value it parses to, or is marked unparseable.       *)
(*                                                                         *)
(* The file-fetch tool (src/AWSLambdaFunctions/read_Files/                 *)
(* lambda_function.py) is modelled beside it: one call of its entry point  *)
(* on an event and a context, with the outcome of every HTTP fetch chosen  *)
(* by the environment.                                                     *)
(***************************************************************************)
EXTENDS Integers, Sequences, FiniteSets, TLC

VARIABLES pc, session_attrs, event, response, history, replay, convs,
          tool_event, tool_context, tool_response

\* The call of the file-fetch tool: its event, its context, what it returned.
tool_vars == <<tool_event, tool_context, tool_response>>

vars == <<pc, session_attrs, event, response, history, replay, convs, tool_vars>>

(* ------------------------------ bounds -------------------------------- *)

MaxLines == 2

MaxBlocks == 2

MaxPaths == 2

(* ----------------------- module constants ----------------------------- *)

READ_FILE_TOOL == <<"ReadFile">>

REQ_KEYS == {"BRANCH", "GITHUB_REPO", "GITHUB_OWNER"}

OPT_KEYS == {"GITHUB_TOKEN"}

ALL_KEYS == REQ_KEYS \cup OPT_KEYS

(* ------------------------------ values -------------------------------- *)

Str(s) == [t |-> "str", s |-> s]

Null == [t |-> "null", s |-> <<>>]

EmptyMap == [k \in {} |-> Null]

\* Python truthiness of a JSON value: "" and None are falsy.
Truthy(v) == v.t = "str" /\ v.s # <<>>

WS == {" ", "\n"}

RECURSIVE LStrip(_)
LStrip(s) == IF s # <<>> /\ Head(s) \in WS THEN LStrip(Tail(s)) ELSE s

RECURSIVE RStrip(_)
RStrip(s) ==
    IF s # <<>> /\ s[Len(s)] \in WS THEN RStrip(SubSeq(s, 1, Len(s) - 1)) ELSE s

\* str.strip()
Strip(s) == RStrip(LStrip(s))

\* All dicts over a subset of keys K with values in V.
Dicts(K, V) == UNION {[D -> V] : D \in SUBSET K}

\* dict.update: the entries of b replace those of a.
Update(a, b) ==
    [k \in DOMAIN a \cup DOMAIN b |-> IF k \in DOMAIN b THEN b[k] ELSE a[k]]

(* ------------------------- events and responses ----------------------- *)

\* A line of the first user message: key, separator and value as written,
\* e.g. "BRANCH = dev" is [key |-> "BRANCH", sep |-> "=", value |-> <<" ", "dev">>].
\* A line without separator (sep = "") is free text.
Line(k, sp, v) == [key |-> k, sep |-> sp, value |-> v]

\* event["input"]["text"] of a START event.  form = "json": the text parses
\* to a JSON object whose recognised keys are obj and whose top-level "text"
\* field, when has_text, holds the lines text.  form = "lines": the text does
\* not parse and consists of lines.  is_str = FALSE: the host passed the
\* object itself instead of a string.
StartInput(f, o, ht, t, ls, st) ==
    [form |-> f, obj |-> o, has_text |-> ht, text |-> t, lines |-> ls, is_str |-> st]

NoStartInput == StartInput("lines", EmptyMap, FALSE, <<>>, <<>>, TRUE)

\* toolUse value: t = "dict" (a JSON object), "str" (a non-object, truthy
\* value) or "null".  input_kind = "absent" | "dict" | "bad" ("bad": a truthy
\* value dict() cannot convert).
ToolUse(ty, hn, n, ik, inp) ==
    [t |-> ty, has_name |-> hn, name |-> n, input_kind |-> ik, input |-> inp]

NoToolUse == ToolUse("null", FALSE, Null, "absent", EmptyMap)

\* A block of output.message.content.
TextBlock(s) == [t |-> "text", text |-> s, toolUse |-> NoToolUse]

ToolUseBlock(tu) == [t |-> "toolUse", text |-> <<>>, toolUse |-> tu]

\* A content block whose "text" is not a string, such as {"text": 1}.
NonStrTextBlock == [t |-> "text_nonstr", text |-> <<>>, toolUse |-> NoToolUse]

\* The parsed model response.
Resp(ty, hc, c, htop, top, hg, g, ho, o) ==
    [t |-> ty, has_content |-> hc, content |-> c, has_top |-> htop, toolUse |-> top,
     has_generation |-> hg, generation |-> g, has_outputText |-> ho, outputText |-> o]

EmptyResp == Resp("dict", FALSE, <<>>, FALSE, NoToolUse, FALSE, <<>>, FALSE, <<>>)

\* event["input"]["text"] of a MODEL_INVOKED event: parses = FALSE for a text
\* json.loads rejects (raw is the text), else resp is what it parses to.
ModelInput(p, r, rs) == [parses |-> p, raw |-> r, resp |-> rs]

NoModelInput == ModelInput(TRUE, <<>>, EmptyResp)

\* event["input"]["text"] of a TOOL_INVOKED event: a text, or a JSON object
\* text with a top-level "text" field.
ToolResult(ht, t, r) == [has_text |-> ht, text |-> t, raw |-> r]

NoToolResult == ToolResult(FALSE, <<>>, <<>>)

Event(st, si, mi, ti, sa) ==
    [state |-> st, start_input |-> si, model_input |-> mi, tool_input |-> ti,
     sessionAttributes |-> sa]

\* What lambda_handler hands back: the response dict (actionEvent
\* INVOKE_MODEL, INVOKE_TOOL or FINISH), the value None (actionEvent =
\* "None"), or an exception (actionEvent = "RAISED", error its type).
Response(ae, msgs, sys, up, hc, sa, id, n, inp, txt, err) ==
    [actionEvent |-> ae, messages |-> msgs, system |-> sys, user_payload |-> up,
     has_context |-> hc, sessionAttributes |-> sa,
     toolUseId |-> id, name |-> n, input |-> inp, text |-> txt, error |-> err]

NotCalled ==
    Response("NOT_CALLED", <<>>, <<>>, NoStartInput, FALSE, EmptyMap, "", <<>>, EmptyMap, <<>>, "")

ReturnedNone ==
    Response("None", <<>>, <<>>, NoStartInput, FALSE, EmptyMap, "", <<>>, EmptyMap, <<>>, "")

Raised(err) ==
    Response("RAISED", <<>>, <<>>, NoStartInput, FALSE, EmptyMap, "", <<>>, EmptyMap, <<>>, err)

(* ------------------------------ helpers ------------------------------- *)

\* _as_text on a START text: a JSON object text with a top-level string
\* "text" yields that text; any other string is returned as is; a non-string
\* is serialised, so its "text" field is not unwrapped.
_as_text(s) ==
    IF s.is_str /\ s.form = "json" /\ s.has_text
    THEN StartInput("lines", EmptyMap, FALSE, <<>>, s.text, TRUE)
    ELSE [s EXCEPT !.is_str = TRUE]

\* Case 1 of _extract_static_tool_params: the recognised keys of a JSON
\* object whose value is a string.
JsonParams(text) ==
    IF text.form = "json"
    THEN [k \in {x \in DOMAIN text.obj \cap ALL_KEYS : text.obj[x].t = "str"} |-> text.obj[k]]
    ELSE EmptyMap

\* The pattern with "=" as the only separator.
LineMatchesEqOnly(l) == l.key \in ALL_KEYS /\ l.sep = "=" /\ Strip(l.value) # <<>>

\* re.match(r"^(KEY)\s*[=:]\s*(.+)$", line.strip()): the key is recognised,
\* a separator follows and at least one character is left after the
\* whitespace.
LineMatches(l) == l.key \in ALL_KEYS /\ l.sep \in {"=", ":"} /\ Strip(l.value) # <<>>

\* Case 2: env-style lines, a later line replacing an earlier one.
RECURSIVE LineParams(_)
LineParams(ls) ==
    IF ls = <<>> THEN EmptyMap
    ELSE LET l == ls[Len(ls)]
             rest == LineParams(SubSeq(ls, 1, Len(ls) - 1))
         IN  IF LineMatches(l)
             THEN Update(rest, [k \in {l.key} |-> Str(Strip(l.value))])
             ELSE rest

_extract_static_tool_params(text) ==
    IF JsonParams(text) # EmptyMap
    THEN JsonParams(text)
    ELSE LineParams(IF text.form = "lines" THEN text.lines ELSE <<>>)

SYSTEM_PROMPT == <<"You are a senior DevOps engineer...", "issue a tool call named '",
                   "ReadFile", "' to fetch the contents of specific files...">>

\* _invoke_model without the context: the session is never handed back.
_invoke_model_no_context(messages, system_prompt, up, attrs) ==
    [actionEvent |-> "INVOKE_MODEL", messages |-> messages, system |-> system_prompt,
     user_payload |-> up, has_context |-> FALSE, sessionAttributes |-> EmptyMap,
     toolUseId |-> "", name |-> <<>>, input |-> EmptyMap, text |-> <<>>, error |-> ""]

\* _invoke_model: the context is attached only for a non-empty session.
_invoke_model(messages, system_prompt, up, attrs) ==
    Response("INVOKE_MODEL", messages, system_prompt, up,
             attrs # EmptyMap, IF attrs # EmptyMap THEN attrs ELSE EmptyMap,
             "", <<>>, EmptyMap, <<>>, "")

\* A tool request whose name is taken from the drawn id.
_invoke_tool_named_by_id(id, name, tool_input) ==
    Response("INVOKE_TOOL", <<>>, <<>>, NoStartInput, FALSE, EmptyMap,
             id, <<id>>, tool_input, <<>>, "")

_invoke_tool(id, name, tool_input) ==
    Response("INVOKE_TOOL", <<>>, <<>>, NoStartInput, FALSE, EmptyMap,
             id, name, tool_input, <<>>, "")

_finish(text) ==
    Response("FINISH", <<>>, <<>>, NoStartInput, FALSE, EmptyMap,
             "", <<>>, EmptyMap, text, "")

\* _first_tool_use_from_converse_response on a JSON object: the toolUse of
\* the first content block that has one, else a top-level toolUse that is an
\* object, else None.
_first_tool_use_from_converse_response(resp) ==
    LET blocks == IF resp.has_content THEN resp.content ELSE <<>>
        idx == {i \in 1..Len(blocks) : blocks[i].t = "toolUse"}
    IN  IF idx # {}
        THEN blocks[CHOOSE i \in idx : \A j \in idx : i <= j].toolUse
        ELSE IF resp.has_top /\ resp.toolUse.t = "dict" THEN resp.toolUse
        ELSE NoToolUse

\* Python truthiness of the value found: None and {} are falsy.
ToolUseTruthy(tu) ==
    \/ tu.t = "str"
    \/ tu.t = "dict" /\ (tu.has_name \/ tu.input_kind # "absent")

\* "\n".join(texts)
RECURSIVE JoinLines(_)
JoinLines(texts) ==
    IF texts = <<>> THEN <<>>
    ELSE IF Len(texts) = 1 THEN texts[1]
    ELSE texts[1] \o <<"\n">> \o JoinLines(Tail(texts))

RECURSIVE TextsOf(_)
TextsOf(blocks) ==
    IF blocks = <<>> THEN <<>>
    ELSE (IF Head(blocks).t = "text" THEN <<Head(blocks).text>> ELSE <<>>)
         \o TextsOf(Tail(blocks))

\* "\n".join(texts) raises on a segment that is not a string, and the
\* except clause then drops every segment.
JoinWorks(resp) ==
    ~(resp.has_content /\ \E i \in 1..Len(resp.content) : resp.content[i].t = "text_nonstr")

\* json.dumps(resp)
Dumps(resp) == IF resp = EmptyResp THEN <<"{}">> ELSE <<"{", "...", "}">>

\* The segments joined and the flat fields returned as they are.
_final_text_unstripped(resp) ==
    LET texts == IF resp.has_content THEN TextsOf(resp.content) ELSE <<>>
    IN  IF texts # <<>> /\ JoinWorks(resp) THEN JoinLines(texts)
        ELSE IF resp.has_generation THEN resp.generation
        ELSE IF resp.has_outputText THEN resp.outputText
        ELSE Dumps(resp)

\* has_generation and has_outputText stand for isinstance(resp.get(key), str).
_final_text_from_converse_response(resp) ==
    LET texts == IF resp.has_content THEN TextsOf(resp.content) ELSE <<>>
    IN  IF texts # <<>> /\ JoinWorks(resp) THEN Strip(JoinLines(texts))
        ELSE IF resp.has_generation THEN Strip(resp.generation)
        ELSE IF resp.has_outputText THEN Strip(resp.outputText)
        ELSE Dumps(resp)

\* f"{name}" of tool_use.get("name")
NameText(name) == IF name.t = "str" THEN name.s ELSE <<"None">>

\* The tool name compared without regard to case.
UnexpectedToolCaseless(name) ==
    ~(name.t = "str" /\ name.s \in {<<"ReadFile">>, <<"readfile">>})

\* name != READ_FILE_TOOL
UnexpectedTool(name) == ~(name.t = "str" /\ name.s = READ_FILE_TOOL)

\* tool_input.update(session_attrs): every session entry replaces the
\* model's entry of the same key.
MergedToolInputUpdate(tool_use, attrs) ==
    LET given == IF tool_use.input_kind = "dict" THEN tool_use.input ELSE EmptyMap
    IN  [k \in DOMAIN given \cup DOMAIN attrs |-> IF k \in DOMAIN attrs THEN attrs[k] ELSE given[k]]

\* Lines 220-223: the model's input, completed from the session for the
\* keys the model did not give.
MergedToolInput(tool_use, attrs) ==
    LET given == IF tool_use.input_kind = "dict" THEN tool_use.input ELSE EmptyMap
        filled == {k \in ALL_KEYS : k \notin DOMAIN given /\ k \in DOMAIN attrs}
    IN  [k \in DOMAIN given \cup filled |-> IF k \in filled THEN attrs[k] ELSE given[k]]

\* Only the absent keys count as missing.
MissingAbsentOnly(tool_input) == {k \in REQ_KEYS : k \notin DOMAIN tool_input}

\* Line 225: the required keys that are absent or falsy.
Missing(tool_input) ==
    {k \in REQ_KEYS : k \notin DOMAIN tool_input \/ ~Truthy(tool_input[k])}

\* The orders in which a set can be iterated.
Orders(S) == {f \in [1..Cardinality(S) -> S] : \A i, j \in DOMAIN f : f[i] = f[j] => i = j}

\* ', '.join(missing)
RECURSIVE JoinKeys(_)
JoinKeys(ks) ==
    IF ks = <<>> THEN <<>>
    ELSE IF Len(ks) = 1 THEN <<ks[1]>>
    ELSE <<ks[1], ", ">> \o JoinKeys(Tail(ks))

MissingText(order) == <<"Missing required ReadFile parameters: ">> \o JoinKeys(order)

(* ------------------------- lambda_handler ----------------------------- *)

\* The toolUseId values uuid.uuid4() may draw.
ToolUseIds == {"uuid-1", "uuid-2"}

\* The START branch: the extracted parameters update the session.
StartSession(input_text, attrs) ==
    Update(attrs, _extract_static_tool_params(_as_text(input_text)))

StartResponse(input_text, attrs) ==
    _invoke_model(<<[role |-> "user",
                     content |-> <<<<"Repository structure and task:">>, <<"{user_payload}">>>>]>>,
                  SYSTEM_PROMPT, _as_text(input_text), StartSession(input_text, attrs))

\* json.loads(input_text or "{}") raises: the text is not empty and does
\* not parse.
ParseFails(mi) == ~mi.parses /\ mi.raw # <<>>

\* json.loads(input_text or "{}") otherwise: the empty text stands for {}.
Loaded(mi) == IF mi.parses THEN mi.resp ELSE EmptyResp

\* The raw text alone, without the label.
UnparsedTextRaw(raw) == raw

\* f"Model response (unparsed):\n{input_text}"
UnparsedText(raw) == <<"Model response (unparsed):\n">> \o raw

\* The MODEL_INVOKED branch: every value the call can return or raise (the
\* toolUseId and the order of the missing keys are not determined by the
\* input).
ModelInvokedResponses(mi, attrs) ==
    IF ParseFails(mi) THEN {_finish(UnparsedText(mi.raw))}
    ELSE IF Loaded(mi).t # "dict" THEN {Raised("AttributeError")}
    ELSE LET tool_use == _first_tool_use_from_converse_response(Loaded(mi))
         IN  IF ~ToolUseTruthy(tool_use)
             THEN {_finish(_final_text_from_converse_response(Loaded(mi)))}
             ELSE IF tool_use.t # "dict" THEN {Raised("AttributeError")}
             ELSE IF UnexpectedTool(tool_use.name)
             THEN {_finish(<<"Unexpected tool requested: ">> \o NameText(tool_use.name))}
             ELSE IF tool_use.input_kind = "bad" THEN {Raised("ValueError")}
             ELSE LET tool_input == MergedToolInput(tool_use, attrs)
                  IN  IF Missing(tool_input) # {}
                      THEN {_finish(MissingText(o)) : o \in Orders(Missing(tool_input))}
                      ELSE {_invoke_tool(id, NameText(tool_use.name), tool_input) :
                                id \in ToolUseIds}

\* The character budget of the tool result in the follow-up request.
MAX_TOOL_RESULT_CHARS == 120000

\* _as_text(input_text).strip() of a TOOL_INVOKED text.
ToolResultText(ti) == Strip(IF ti.has_text THEN ti.text ELSE ti.raw)

\* tool_result_text[:120000]
Truncated(text) ==
    SubSeq(text, 1, IF Len(text) < MAX_TOOL_RESULT_CHARS THEN Len(text) ELSE MAX_TOOL_RESULT_CHARS)

ASSISTANT_SUMMARY == <<"Tool results received. Use them to refine or finish the Dockerfile...">>

\* The messages the TOOL_INVOKED branch builds: the assistant's instruction
\* and the user's block with the tool result; nothing is read from the
\* session.
ToolMessages(ti) ==
    <<[role |-> "assistant", content |-> <<ASSISTANT_SUMMARY>>],
      [role |-> "user",
       content |-> <<<<"Requested file contents:">>, Truncated(ToolResultText(ti))>>]>>

\* The TOOL_INVOKED branch ends in "return _invoke": the name is not
\* defined, the call raises NameError after building the messages.
ToolInvokedResponse(ti, attrs) ==
    LET messages == ToolMessages(ti)
    IN  Raised("NameError")

\* No branch matches: the function body ends and the call returns None.
UnhandledResponse == ReturnedNone

\* A session kept by the process: what the first conversation holds is
\* seen under every event that does not set the key itself.
SessionAttrsShared(ev) == Update(convs[1].session_attrs, ev.sessionAttributes)

\* session_attrs = event.get("context", {}).get("sessionAttributes", {}) or {}
SessionAttrs(ev) == ev.sessionAttributes

\* lambda_handler on an event: every value the call can return or raise.
\* The state tag selects the branch; the session is read from the event.
lambda_handler(ev) ==
    CASE ev.state = "START" -> {StartResponse(ev.start_input, SessionAttrs(ev))}
      [] ev.state = "MODEL_INVOKED" ->
             ModelInvokedResponses(ev.model_input, SessionAttrs(ev))
      [] ev.state = "TOOL_INVOKED" ->
             {ToolInvokedResponse(ev.tool_input, SessionAttrs(ev))}
      [] OTHER -> {UnhandledResponse}

(* ----------------- file-fetch tool: values and records ----------------- *)

\* A JSON number other than 0, and a key that is not there.
Num == [t |-> "num", s |-> <<>>]

Absent == [t |-> "absent", s |-> <<>>]

\* Python truthiness of what event.get(key) gives: None (absent or null)
\* and "" are falsy.
TruthyValue(v) == Truthy(v) \/ v.t = "num"

\* event["paths"]: a list of entries, or another value, or nothing.
Paths(ty, items) == [t |-> ty, items |-> items]

\* The event of the tool: is_dict = FALSE for an event that is no dict.
ToolEvent(d, pr, ow, rp, url, rf, ps) ==
    [is_dict |-> d, provider |-> pr, owner |-> ow, repo |-> rp, repo_url |-> url,
     ref |-> rf, paths |-> ps]

NoToolEvent == ToolEvent(TRUE, Absent, Absent, Absent, Absent, Absent, Paths("absent", <<>>))

\* The context: has_custom = FALSE when context.client_context.custom is
\* not there; else the value under "bedrockAgentCoreToolName", if any.
ToolContext(hc, name) == [has_custom |-> hc, name |-> name]

\* One record of the results list.
FileResult(p, url, enc, len, c, e) ==
    [path |-> p, source_url |-> url, encoding |-> enc, length |-> len,
     content |-> c, error |-> e]

\* The dict handed to _response: a message, or the answer with its results.
Body(msg, hr, ow, rp, rf, rs) ==
    [message |-> msg, has_results |-> hr, provider |-> IF hr THEN "github" ELSE "",
     owner |-> ow, repo |-> rp, ref |-> rf, results |-> rs]

MessageBody(msg) == Body(msg, FALSE, Null, Null, Null, <<>>)

\* json.dumps(body): a text that json.loads turns back into body.
JsonDumps(body) == [t |-> "json", value |-> body]

\* _response
_response(status, body) ==
    [statusCode |-> status, headers |-> "application/json", body |-> JsonDumps(body)]

NoToolResponse == [statusCode |-> 0, headers |-> "", body |-> [t |-> "none", value |-> MessageBody(<<>>)]]

ToolIdle ==
    /\ tool_event = NoToolEvent
    /\ tool_context = ToolContext(FALSE, Absent)
    /\ tool_response = NoToolResponse

(* ----------------------- file-fetch tool: code ------------------------- *)

\* GITHUB_URL_RE: the scheme and host, an owner without "/", a "/", a
\* repository part without "/", and at most one "/" at the end.
URL_HEADS == {"https://github.com/", "http://github.com/"}

UrlTail(u) ==
    LET rest == Tail(u)
    IN  IF rest # <<>> /\ rest[Len(rest)] = "/" THEN SubSeq(rest, 1, Len(rest) - 1) ELSE rest

\* The position of the "/" between owner and repository, 0 when the text
\* does not match.
UrlSlash(u) ==
    IF u = <<>> \/ Head(u) \notin URL_HEADS THEN 0
    ELSE LET body == UrlTail(u)
             idx == {i \in 1..Len(body) : body[i] = "/"}
         IN  IF Cardinality(idx) = 1
             THEN LET i == CHOOSE j \in idx : TRUE
                  IN  IF 1 < i /\ i < Len(body) THEN i ELSE 0
             ELSE 0

\* str.removesuffix(".git")
RemoveSuffixGit(s) ==
    IF s # <<>> /\ s[Len(s)] = ".git" THEN SubSeq(s, 1, Len(s) - 1) ELSE s

\* What _parse_repo returns or raises.
Parsed(err, ow, rp) == [error |-> err, owner |-> ow, repo |-> rp]

_parse_repo(ev) ==
    IF TruthyValue(ev.owner) /\ TruthyValue(ev.repo) THEN Parsed("", ev.owner, ev.repo)
    ELSE IF TruthyValue(ev.repo_url)
    THEN IF ev.repo_url.t # "str" THEN Parsed("AttributeError", Null, Null)
         ELSE LET u == Strip(ev.repo_url.s)
                  i == UrlSlash(u)
              IN  IF i = 0 THEN Parsed("ValueError", Null, Null)
                  ELSE Parsed("", Str(SubSeq(UrlTail(u), 1, i - 1)),
                              Str(RemoveSuffixGit(SubSeq(UrlTail(u), i + 1, Len(UrlTail(u))))))
    ELSE Parsed("ValueError", Null, Null)

\* What one HTTP fetch can do: return bytes that decode as UTF-8, return
\* other bytes, or raise HTTPError, URLError or another exception.
Fetches == {"utf-8", "base64", "HTTPError", "URLError", "Exception"}

\* The text an f-string gives for a value.
TextOf(v) == IF v.t = "str" THEN v.s ELSE <<"<", v.t, ">">>

\* p.lstrip("/")
RECURSIVE LStripSlash(_)
LStripSlash(p) == IF p # <<>> /\ Head(p) = "/" THEN LStripSlash(Tail(p)) ELSE p

RawUrl(owner, repo, ref, p) ==
    <<"https://raw.githubusercontent.com/">> \o TextOf(owner) \o <<"/">> \o TextOf(repo)
        \o <<"/">> \o TextOf(ref) \o <<"/">> \o LStripSlash(p.s)

\* The record appended for one path, by the outcome of its fetch.
FetchResult(p, url, fetch) ==
    CASE fetch = "utf-8" -> FileResult(p, url, "utf-8", "len(blob)", Str(<<"text">>), Null)
      [] fetch = "base64" -> FileResult(p, url, "base64", "len(blob)", Str(<<"b64">>), Null)
      [] fetch = "HTTPError" ->
             FileResult(p, url, "None", "0", Null, Str(<<"HTTPError ", "code", ": ", "reason">>))
      [] fetch = "URLError" -> FileResult(p, url, "None", "0", Null, Str(<<"URLError: ", "reason">>))
      [] OTHER ->
             FileResult(p, url, "None", "0", Null, Str(<<"Exception: ", "type", ": ", "e">>))

\* _read_github_files: p.lstrip stands outside the try, so an entry that is
\* not a string raises AttributeError out of the loop and the records built
\* so far are lost.
_read_github_files(owner, repo, ref, paths, fetches) ==
    IF \E i \in 1..Len(paths) : paths[i].t # "str"
    THEN [raised |-> TRUE, results |-> <<>>]
    ELSE [raised |-> FALSE,
          results |-> [i \in 1..Len(paths) |->
                          FetchResult(paths[i], RawUrl(owner, repo, ref, paths[i]), fetches[i])]]

\* str.lower() on the provider names that occur.
Lower(s) == [i \in 1..Len(s) |-> IF s[i] = "GitHub" THEN "github" ELSE s[i]]

MAX_PATHS == 100

Unhandled500(type) == _response(500, MessageBody(<<"UnhandledException: ", type, ": ", "e">>))

\* handler: the checks in the order of the code, every exception caught.
handler(ev, fetches) ==
    IF ~ev.is_dict THEN Unhandled500("AttributeError")
    ELSE IF ev.provider.t \notin {"absent", "str"} THEN Unhandled500("AttributeError")
    ELSE IF ev.provider.t = "str" /\ Lower(ev.provider.s) # <<"github">>
    THEN _response(400, MessageBody(<<"Only provider 'github' is currently supported.">>))
    ELSE LET parsed == _parse_repo(ev)
             ref == IF TruthyValue(ev.ref) THEN ev.ref ELSE Str(<<"main">>)
             paths == IF ev.paths.t = "absent" THEN Paths("list", <<>>) ELSE ev.paths
         IN  IF parsed.error = "ValueError"
             THEN _response(400, MessageBody(<<"str(ve)">>))
             ELSE IF parsed.error # "" THEN Unhandled500(parsed.error)
             ELSE IF paths.t # "list" \/ paths.items = <<>>
             THEN _response(400, MessageBody(<<"'paths' must be a non-empty array of file paths.">>))
             ELSE IF Len(paths.items) > MAX_PATHS
             THEN _response(400, MessageBody(<<"Too many paths; max is 100 per call.">>))
             ELSE LET read == _read_github_files(parsed.owner, parsed.repo, ref,
                                                 paths.items, fetches)
                  IN  IF read.raised THEN Unhandled500("AttributeError")
                      ELSE _response(200, Body(<<>>, TRUE, parsed.owner, parsed.repo, ref,
                                               read.results))

\* The tool name: the one in the context, "readFiles" without one.
ToolName(ctx) ==
    IF ctx.has_custom /\ ctx.name.t # "absent" THEN ctx.name ELSE Str(<<"readFiles">>)

\* lambda_handler of the tool.
tool_lambda_handler(ev, ctx, fetches) ==
    IF ToolName(ctx) = Str(<<"readFiles">>) THEN handler(ev, fetches)
    ELSE _response(400, MessageBody(<<"Unknown tool name: ">> \o TextOf(ToolName(ctx))))

(* ------------------------------- host --------------------------------- *)

\* The state the host invokes next: the model after INVOKE_MODEL, the tool
\* after INVOKE_TOOL; FINISH ends the conversation, anything else fails it.
NextPc(r) ==
    CASE r.actionEvent = "INVOKE_MODEL" -> "MODEL_INVOKED"
      [] r.actionEvent = "INVOKE_TOOL" -> "TOOL_INVOKED"
      [] r.actionEvent = "FINISH" -> "FINISHED"
      [] OTHER -> "FAILED"

\* The session the host keeps: the returned context when there is one.
Persisted(r, attrs) == IF r.has_context THEN r.sessionAttributes ELSE attrs

Returned(ev, r) ==
    /\ event' = ev
    /\ response' = r
    /\ session_attrs' = Persisted(r, ev.sessionAttributes)
    /\ pc' = NextPc(r)
    /\ history' = Append(history, [state |-> ev.state, actionEvent |-> r.actionEvent])
    /\ replay' = NotCalled
    /\ UNCHANGED <<convs, tool_vars>>

(* ------------------------------ inputs -------------------------------- *)

SeqsUpTo(S, n) == UNION {[1..m -> S] : m \in 0..n}

SessionsInit ==
    {Update(d, e) : d \in Dicts(ALL_KEYS \cup {"filePath"}, {Str(<<"main">>)}),
                    e \in {EmptyMap, [k \in {"BRANCH"} |-> Str(<<>>)]}}

StartLines ==
    {Line("BRANCH", "=", <<"dev">>), Line("BRANCH", ":", <<" ", "dev", " ">>),
     Line("BRANCH", "=", <<" ">>), Line("GITHUB_REPO", "=", <<"dev">>),
     Line("GITHUB_OWNER", ":", <<"dev">>), Line("src/", "", <<>>),
     Line("GITHUB_TOKEN", "=", <<>>)}

StartObjs ==
    Dicts(ALL_KEYS, {Str(<<"dev">>)})
        \cup {[k \in {"BRANCH"} |-> Str(<<>>)], [k \in {"BRANCH"} |-> Null]}

StartInputs ==
    {StartInput("lines", EmptyMap, FALSE, <<>>, ls, TRUE) : ls \in SeqsUpTo(StartLines, MaxLines)}
        \cup {StartInput("json", o, FALSE, <<>>, <<>>, TRUE) : o \in StartObjs}
        \cup {StartInput("json", o, TRUE, t, <<>>, st) :
                 o \in {EmptyMap, [k \in {"BRANCH"} |-> Str(<<"dev">>)]},
                 t \in {<<Line("tree", "", <<>>)>>, <<Line("GITHUB_REPO", "=", <<"dev">>)>>},
                 st \in BOOLEAN}

FilePaths == {EmptyMap, [k \in {"filePath"} |-> Str(<<"go.mod">>)]}

ModelCoordinates ==
    Dicts(ALL_KEYS, {Str(<<"evil">>)})
        \cup {[k \in {"BRANCH"} |-> v] : v \in {Str(<<>>), Null, Str(<<"main">>)}}

ModelToolInputs == {Update(fp, co) : fp \in FilePaths, co \in ModelCoordinates}

ReadFileUses ==
    {ToolUse("dict", TRUE, Str(READ_FILE_TOOL), "dict", i) : i \in ModelToolInputs}
        \cup {ToolUse("dict", TRUE, Str(READ_FILE_TOOL), k, EmptyMap) : k \in {"absent", "bad"}}

OtherUses ==
    {ToolUse("dict", TRUE, Str(n), "dict", i) :
         n \in {<<"WriteFile">>, <<"readfile">>}, i \in FilePaths}
        \cup {ToolUse("dict", FALSE, Null, "dict", [k \in {"filePath"} |-> Str(<<"go.mod">>)]),
              ToolUse("dict", TRUE, Str(<<"WriteFile">>), "bad", EmptyMap),
              ToolUse("dict", TRUE, Null, "absent", EmptyMap),
              ToolUse("dict", FALSE, Null, "absent", EmptyMap),
              ToolUse("str", FALSE, Null, "absent", EmptyMap),
              NoToolUse}

FinalTexts == {<<"FROM">>, <<" ", "FROM", "\n">>, <<>>}

SmallBlocks ==
    {TextBlock(t) : t \in {<<"FROM">>, <<" ", "FROM", "\n">>}}
        \cup {ToolUseBlock(ToolUse("dict", TRUE, Str(n), "dict",
                                   [k \in {"filePath"} |-> Str(<<"go.mod">>)])) :
                  n \in {READ_FILE_TOOL, <<"WriteFile">>}}

ModelResps ==
    {Resp("dict", TRUE, <<ToolUseBlock(tu)>>, FALSE, NoToolUse, FALSE, <<>>, FALSE, <<>>) :
         tu \in ReadFileUses \cup OtherUses}
        \cup {Resp("dict", hc, <<>>, TRUE, tu, FALSE, <<>>, FALSE, <<>>) :
                  hc \in BOOLEAN,
                  tu \in {ToolUse("dict", TRUE, Str(READ_FILE_TOOL), "dict",
                                  [k \in {"filePath"} |-> Str(<<"go.mod">>)]),
                          ToolUse("str", FALSE, Null, "absent", EmptyMap)}}
        \cup {Resp("dict", TRUE, c, FALSE, NoToolUse, FALSE, <<>>, FALSE, <<>>) :
                  c \in SeqsUpTo(SmallBlocks, MaxBlocks)}
        \cup {Resp("dict", FALSE, <<>>, FALSE, NoToolUse, TRUE, g, FALSE, <<>>) : g \in FinalTexts}
        \cup {Resp("dict", TRUE, <<NonStrTextBlock, TextBlock(<<"FROM">>)>>, FALSE, NoToolUse,
                   hg, <<" ", "FROM">>, FALSE, <<>>) : hg \in BOOLEAN}
        \cup {Resp("dict", TRUE,
                   <<ToolUseBlock(tu), TextBlock(<<"FROM">>),
                     ToolUseBlock(ToolUse("dict", TRUE, Str(READ_FILE_TOOL), "dict",
                                          [k \in {"filePath"} |-> Str(<<"go.mod">>)]))>>,
                   FALSE, NoToolUse, FALSE, <<>>, FALSE, <<>>) :
                  tu \in {NoToolUse, ToolUse("dict", FALSE, Null, "absent", EmptyMap)}}
        \cup {Resp("dict", TRUE,
                   <<TextBlock(<<"FROM">>),
                     ToolUseBlock(ToolUse("dict", TRUE, Str(<<"WriteFile">>), "dict", EmptyMap))>>,
                   TRUE,
                   ToolUse("dict", TRUE, Str(READ_FILE_TOOL), "dict",
                           [k \in {"filePath"} |-> Str(<<"go.mod">>)]),
                   FALSE, <<>>, FALSE, <<>>)}
        \cup {Resp("dict", FALSE, <<>>, FALSE, NoToolUse, TRUE, <<"a">>, TRUE, <<"b", " ">>),
              Resp("dict", FALSE, <<>>, FALSE, NoToolUse, FALSE, <<>>, TRUE, <<"FROM", " ">>),
              Resp("nondict", FALSE, <<>>, FALSE, NoToolUse, FALSE, <<>>, FALSE, <<>>),
              EmptyResp}

ModelInputs ==
    {ModelInput(TRUE, <<>>, r) : r \in ModelResps}
        \cup {ModelInput(FALSE, <<"FROM", " ", "x">>, EmptyResp),
              ModelInput(FALSE, <<>>, EmptyResp)}

ToolResults ==
    {ToolResult(FALSE, <<>>, <<"module", "\n">>), ToolResult(TRUE, <<" ", "module">>, <<>>),
     ToolResult(FALSE, <<>>, <<>>)}

\* State tags the handler has no branch for; "" stands for a missing tag
\* (event.get("state") is None).
UnhandledTags == {"", "FINISH", "start"}

(* ------------------------------ actions ------------------------------- *)

NoEvent == Event("", NoStartInput, NoModelInput, NoToolResult, EmptyMap)

\* The conversations the host runs side by side, and what it keeps for each.
Conversations == {1, 2}

Conv(p, attrs, ev, r) == [pc |-> p, session_attrs |-> attrs, event |-> ev, response |-> r]

Init ==
    /\ pc = "START"
    /\ session_attrs \in SessionsInit
    /\ event = NoEvent
    /\ response = NotCalled
    /\ history = <<>>
    /\ replay = NotCalled
    /\ convs = [c \in Conversations |-> Conv("START", EmptyMap, NoEvent, NotCalled)]
    /\ ToolIdle

Start ==
    /\ pc = "START"
    /\ \E input_text \in StartInputs :
           Returned(Event("START", input_text, NoModelInput, NoToolResult, session_attrs),
                    StartResponse(input_text, session_attrs))

ModelInvoked ==
    /\ pc = "MODEL_INVOKED"
    /\ \E input_text \in ModelInputs :
           \E r \in ModelInvokedResponses(input_text, session_attrs) :
               Returned(Event("MODEL_INVOKED", NoStartInput, input_text, NoToolResult,
                              session_attrs), r)

ToolInvoked ==
    /\ pc = "TOOL_INVOKED"
    /\ \E input_text \in ToolResults :
           Returned(Event("TOOL_INVOKED", NoStartInput, NoModelInput, input_text,
                          session_attrs),
                    ToolInvokedResponse(input_text, session_attrs))

Unhandled ==
    /\ pc \in {"START", "MODEL_INVOKED", "TOOL_INVOKED"}
    /\ \E state \in UnhandledTags :
           Returned(Event(state, NoStartInput, NoModelInput, NoToolResult, session_attrs),
                    UnhandledResponse)

\* The host invokes the handler a second time with the event of the last
\* step: same state tag, same payload, same session.
Retry ==
    /\ response # NotCalled
    /\ replay = NotCalled
    /\ \E r \in lambda_handler(event) : replay' = r
    /\ UNCHANGED <<pc, session_attrs, event, response, history, convs, tool_vars>>

Next == Start \/ ModelInvoked \/ ToolInvoked \/ Unhandled \/ Retry

Spec == Init /\ [][Next]_vars

(* ----------------------- two conversations --------------------------- *)

\* The coordinate value that belongs to a conversation.
OwnToken(c) == IF c = 1 THEN "main" ELSE "dev"

OwnValue(c) == Str(<<OwnToken(c)>>)

SessionsOf(c) == {EmptyMap, [k \in {"GITHUB_OWNER"} |-> OwnValue(c)]}

StartInputsOf(c) ==
    {StartInput("json", [k \in REQ_KEYS |-> OwnValue(c)], FALSE, <<>>, <<>>, TRUE),
     StartInput("lines", EmptyMap, FALSE, <<>>,
                <<Line("BRANCH", "=", <<OwnToken(c)>>), Line("GITHUB_REPO", ":", <<OwnToken(c)>>)>>,
                TRUE),
     StartInput("lines", EmptyMap, FALSE, <<>>, <<Line("src/", "", <<>>)>>, TRUE)}

ModelInputsOf(c) ==
    {ModelInput(TRUE, <<>>,
                Resp("dict", TRUE, <<ToolUseBlock(ToolUse("dict", TRUE, Str(READ_FILE_TOOL), "dict", i))>>,
                     FALSE, NoToolUse, FALSE, <<>>, FALSE, <<>>)) :
         i \in {[k \in {"filePath"} |-> Str(<<"go.mod">>)],
                [k \in {"filePath", "GITHUB_TOKEN"} |-> OwnValue(c)]}}
        \cup {ModelInput(TRUE, <<>>,
                         Resp("dict", FALSE, <<>>, FALSE, NoToolUse, TRUE, <<"FROM">>, FALSE, <<>>))}

\* The host's bookkeeping for one conversation after a call returned.
ReturnedTo(c, ev, r) ==
    /\ convs' = [convs EXCEPT ![c] = Conv(NextPc(r), Persisted(r, ev.sessionAttributes), ev, r)]
    /\ UNCHANGED <<pc, session_attrs, event, response, history, replay, tool_vars>>

InitTwo ==
    /\ pc = "START"
    /\ session_attrs = EmptyMap
    /\ event = NoEvent
    /\ response = NotCalled
    /\ history = <<>>
    /\ replay = NotCalled
    /\ ToolIdle
    /\ convs \in {[c \in Conversations |-> Conv("START", s[c], NoEvent, NotCalled)] :
                     s \in {f \in [Conversations -> UNION {SessionsOf(c) : c \in Conversations}] :
                                \A c \in Conversations : f[c] \in SessionsOf(c)}}

StartOf(c) ==
    /\ convs[c].pc = "START"
    /\ \E input_text \in StartInputsOf(c) :
           LET ev == Event("START", input_text, NoModelInput, NoToolResult,
                           convs[c].session_attrs)
           IN  \E r \in lambda_handler(ev) : ReturnedTo(c, ev, r)

ModelInvokedOf(c) ==
    /\ convs[c].pc = "MODEL_INVOKED"
    /\ \E input_text \in ModelInputsOf(c) :
           LET ev == Event("MODEL_INVOKED", NoStartInput, input_text, NoToolResult,
                           convs[c].session_attrs)
           IN  \E r \in lambda_handler(ev) : ReturnedTo(c, ev, r)

ToolInvokedOf(c) ==
    /\ convs[c].pc = "TOOL_INVOKED"
    /\ \E input_text \in ToolResults :
           LET ev == Event("TOOL_INVOKED", NoStartInput, NoModelInput, input_text,
                           convs[c].session_attrs)
           IN  \E r \in lambda_handler(ev) : ReturnedTo(c, ev, r)

NextTwo == \E c \in Conversations : StartOf(c) \/ ModelInvokedOf(c) \/ ToolInvokedOf(c)

SpecTwo == InitTwo /\ [][NextTwo]_vars

(* --------------------------- file-fetch tool --------------------------- *)

ToolProviders == {Absent, Str(<<"github">>), Str(<<"GitHub">>), Str(<<"gitlab">>), Num}

ToolOwners == {Absent, Str(<<"acme">>)}

ToolRepos == {Absent, Str(<<"widgets">>)}

ToolUrls ==
    {Absent, Str(<<"https://github.com/", "acme", "/", "widgets">>),
     Str(<<" ", "https://github.com/", "acme", "/", "widgets", ".git", "/", " ">>),
     Str(<<"ftp://x">>), Num}

ToolRefs == {Absent, Str(<<"dev">>)}

PathEntries == {Str(<<"README.md">>), Str(<<"/", "src/a.py">>), Num}

ToolPaths ==
    {Paths("list", s) : s \in SeqsUpTo(PathEntries, MaxPaths)}
        \cup {Paths("list", [i \in 1..n |-> Str(<<"README.md">>)]) : n \in {MAX_PATHS, MAX_PATHS + 1}}
        \cup {Paths("absent", <<>>), Paths("str", <<>>)}

ToolEvents ==
    {ToolEvent(TRUE, pr, ow, rp, url, rf, ps) :
         pr \in ToolProviders, ow \in ToolOwners, rp \in ToolRepos, url \in ToolUrls,
         rf \in ToolRefs, ps \in ToolPaths}
        \cup {ToolEvent(FALSE, Absent, Absent, Absent, Absent, Absent, Paths("absent", <<>>))}

ToolContexts ==
    {ToolContext(FALSE, Absent), ToolContext(TRUE, Absent), ToolContext(TRUE, Null)}
        \cup {ToolContext(TRUE, Str(<<n>>)) : n \in {"readFiles", "other"}}

\* The outcomes of the fetches of n paths; beyond MaxPaths all alike.
FetchesFor(n) ==
    IF n <= MaxPaths THEN [1..n -> Fetches] ELSE {[i \in 1..n |-> f] : f \in Fetches}

InitRead ==
    /\ pc = "START"
    /\ session_attrs = EmptyMap
    /\ event = NoEvent
    /\ response = NotCalled
    /\ history = <<>>
    /\ replay = NotCalled
    /\ convs = [c \in Conversations |-> Conv("START", EmptyMap, NoEvent, NotCalled)]
    /\ tool_event \in ToolEvents
    /\ tool_context \in ToolContexts
    /\ tool_response = NoToolResponse

\* The gateway calls lambda_handler once on the event and the context.
ReadFiles ==
    /\ tool_response = NoToolResponse
    /\ \E fetches \in FetchesFor(Len(tool_event.paths.items)) :
           tool_response' = tool_lambda_handler(tool_event, tool_context, fetches)
    /\ UNCHANGED <<pc, session_attrs, event, response, history, replay, convs,
                   tool_event, tool_context>>

NextRead == ReadFiles

SpecRead == InitRead /\ [][NextRead]_vars

(* ------------------------------ claims -------------------------------- *)

\* The tool request of the model response handled by the last step.
Request == _first_tool_use_from_converse_response(event.model_input.resp)

\* The last step was MODEL_INVOKED on a response holding a tool request.
ToolRequested ==
    /\ event.state = "MODEL_INVOKED"
    /\ event.model_input.parses
    /\ event.model_input.resp.t = "dict"
    /\ Request.t = "dict"
    /\ Request.has_name
    /\ Request.name.t = "str"

RecognizedRequest == ToolRequested /\ Request.name.s = READ_FILE_TOOL

\* The text holds the token sequence part.
Contains(text, part) ==
    \E i \in 1..(Len(text) - Len(part) + 1) : SubSeq(text, i, i + Len(part) - 1) = part

NonEmpty(v) == v.t = "str" /\ v.s # <<>>

\* C1: in the MODEL_INVOKED step, every repository coordinate (BRANCH,
\* GITHUB_OWNER, GITHUB_REPO, GITHUB_TOKEN) of an emitted INVOKE_TOOL input
\* is the value held in the session, never one supplied by the model.
C1_CoordinatesFromSession ==
    (RecognizedRequest /\ response.actionEvent = "INVOKE_TOOL")
        => \A k \in ALL_KEYS \cap DOMAIN response.input :
               /\ k \in DOMAIN event.sessionAttributes
               /\ response.input[k] = event.sessionAttributes[k]

\* C2: a call with a state tag other than START, MODEL_INVOKED and
\* TOOL_INVOKED (a missing tag included) fails with an UnhandledState error;
\* it returns no action, no empty result and no default.
C2_UnhandledStateFails ==
    (history # <<>> /\ event.state \notin {"START", "MODEL_INVOKED", "TOOL_INVOKED"})
        => (response.actionEvent = "RAISED" /\ response.error = "UnhandledState")

\* The model's input of the request handled by the last step.
Given == IF Request.input_kind = "dict" THEN Request.input ELSE EmptyMap

\* The required keys left absent or empty once the session has completed
\* the model's input.
MissingAfterMerge ==
    {k \in REQ_KEYS :
        \/ k \in DOMAIN Given /\ ~NonEmpty(Given[k])
        \/ /\ k \notin DOMAIN Given
           /\ (k \notin DOMAIN event.sessionAttributes \/ ~NonEmpty(event.sessionAttributes[k]))}

\* C3: every INVOKE_TOOL carries each required key with a non-empty value;
\* a recognised request that leaves a required key absent or empty after the
\* merge ends in FINISH whose message names each missing key.
C3_InvokeToolComplete ==
    /\ response.actionEvent = "INVOKE_TOOL"
           => \A k \in REQ_KEYS : k \in DOMAIN response.input /\ NonEmpty(response.input[k])
    /\ (RecognizedRequest /\ Request.input_kind # "bad" /\ MissingAfterMerge # {})
           => /\ response.actionEvent = "FINISH"
              /\ \A k \in MissingAfterMerge : Contains(response.text, <<k>>)
              /\ \A k \in REQ_KEYS \ MissingAfterMerge : ~Contains(response.text, <<k>>)

C3_Witness ==
    /\ RecognizedRequest
    /\ response.actionEvent = "FINISH"
    /\ Cardinality(MissingAfterMerge) = 2
    /\ "BRANCH" \in DOMAIN Given

\* The case of C4: the model names ReadFile and gives a file path and no
\* coordinate, the session holds a non-empty value for each required key.
C4_Case ==
    /\ RecognizedRequest
    /\ Request.input_kind = "dict"
    /\ "filePath" \in DOMAIN Request.input
    /\ DOMAIN Request.input \cap ALL_KEYS = {}
    /\ \A k \in REQ_KEYS :
           k \in DOMAIN event.sessionAttributes /\ NonEmpty(event.sessionAttributes[k])

\* C4: in that case the action is INVOKE_TOOL, its input holds the model's
\* file path unchanged and the coordinates of the session, and nothing else.
C4_MergeCorrect ==
    C4_Case
        => /\ response.actionEvent = "INVOKE_TOOL"
           /\ response.name = READ_FILE_TOOL
           /\ DOMAIN response.input =
                  DOMAIN Request.input \cup (ALL_KEYS \cap DOMAIN event.sessionAttributes)
           /\ response.input["filePath"] = Request.input["filePath"]
           /\ \A k \in ALL_KEYS \cap DOMAIN event.sessionAttributes :
                  response.input[k] = event.sessionAttributes[k]

C4_Witness ==
    /\ C4_Case
    /\ response.actionEvent = "INVOKE_TOOL"
    /\ "filePath" \in DOMAIN event.sessionAttributes
    /\ "GITHUB_TOKEN" \in DOMAIN event.sessionAttributes

\* C5: a request whose declared tool name is not ReadFile ends in FINISH
\* whose message holds that name, whatever the input and the session; no
\* INVOKE_TOOL is emitted.
C5_UnexpectedToolFinishes ==
    (ToolRequested /\ Request.name.s # READ_FILE_TOOL)
        => /\ response.actionEvent = "FINISH"
           /\ Contains(response.text, Request.name.s)
           /\ pc = "FINISHED"

C5_Witness ==
    /\ ToolRequested
    /\ Request.name.s = <<"readfile">>
    /\ "filePath" \in DOMAIN Given
    /\ REQ_KEYS \subseteq DOMAIN event.sessionAttributes
    /\ response.actionEvent = "FINISH"

\* C6: at START a value extracted from the payload never replaces a value
\* the incoming session holds under the same key: every incoming key keeps
\* its value in the session attached to the output.
C6_FirstWriteWins ==
    event.state = "START"
        => \A k \in DOMAIN event.sessionAttributes :
               /\ response.has_context
               /\ k \in DOMAIN response.sessionAttributes
               /\ response.sessionAttributes[k] = event.sessionAttributes[k]

\* The parameters found in the payload of the last START step.
Extracted == _extract_static_tool_params(_as_text(event.start_input))

C8_ToolInvokedInvokesModel ==
    event.state = "TOOL_INVOKED" => response.actionEvent = "INVOKE_MODEL"

\* The first n steps of the conversation are those of the round trip:
\* START, MODEL_INVOKED answered by INVOKE_TOOL, TOOL_INVOKED, MODEL_INVOKED.
RoundTrip(n) ==
    /\ Len(history) = n
    /\ \A i \in 1..n :
           history[i].state = <<"START", "MODEL_INVOKED", "TOOL_INVOKED", "MODEL_INVOKED">>[i]
    /\ n >= 1 => history[1].actionEvent = "INVOKE_MODEL"
    /\ n >= 2 => history[2].actionEvent = "INVOKE_TOOL"

\* The final text of a model response that holds no tool request: its text
\* segments as they are, or its flat text field.
RECURSIVE Concat(_)
Concat(texts) == IF texts = <<>> THEN <<>> ELSE Head(texts) \o Concat(Tail(texts))

ModelText(resp) ==
    IF resp.has_content /\ TextsOf(resp.content) # <<>> THEN Concat(TextsOf(resp.content))
    ELSE IF resp.has_generation THEN resp.generation
    ELSE resp.outputText

HasFinalText(mi) ==
    /\ mi.parses
    /\ mi.resp.t = "dict"
    /\ ~ToolUseTruthy(_first_tool_use_from_converse_response(mi.resp))
    /\ \/ mi.resp.has_content /\ TextsOf(mi.resp.content) # <<>>
       \/ mi.resp.has_generation
       \/ mi.resp.has_outputText

\* C9: in the round trip the TOOL_INVOKED step yields INVOKE_MODEL and the
\* last MODEL_INVOKED step, given a final text, yields FINISH whose text is
\* that text exactly.
C9_RoundTrip ==
    /\ RoundTrip(3) => response.actionEvent = "INVOKE_MODEL"
    /\ (RoundTrip(4) /\ HasFinalText(event.model_input))
           => /\ response.actionEvent = "FINISH"
              /\ response.text = ModelText(event.model_input.resp)

\* C10: INVOKE_MODEL comes only from START and TOOL_INVOKED steps,
\* INVOKE_TOOL and FINISH only from MODEL_INVOKED steps; START and
\* TOOL_INVOKED lead to MODEL_INVOKED, INVOKE_TOOL leads to TOOL_INVOKED, and
\* nothing follows FINISH.
C10_TransitionDiscipline ==
    /\ response.actionEvent = "INVOKE_MODEL" => event.state \in {"START", "TOOL_INVOKED"}
    /\ response.actionEvent \in {"INVOKE_TOOL", "FINISH"} => event.state = "MODEL_INVOKED"
    /\ event.state \in {"START", "TOOL_INVOKED"} => pc = "MODEL_INVOKED"
    /\ response.actionEvent = "INVOKE_TOOL" => pc = "TOOL_INVOKED"
    /\ \A i \in 1..Len(history) : history[i].actionEvent = "FINISH" => i = Len(history)

\* The lines are KEY=value or KEY: value lines of distinct recognised keys.
KeyLines(ls) ==
    /\ \A i \in 1..Len(ls) : ls[i].key \in ALL_KEYS /\ ls[i].sep \in {"=", ":"}
    /\ \A i, j \in 1..Len(ls) : ls[i].key = ls[j].key => i = j

\* The JSON object text holding the keys and values of the lines.
JsonOf(ls) ==
    StartInput("json",
               [k \in {ls[i].key : i \in 1..Len(ls)} |->
                    Str(ls[CHOOSE i \in 1..Len(ls) : ls[i].key = k].value)],
               FALSE, <<>>, <<>>, TRUE)

\* The last step was START on a text of such lines.
KeyLinesStart ==
    /\ event.state = "START"
    /\ event.start_input.form = "lines"
    /\ event.start_input.is_str
    /\ KeyLines(event.start_input.lines)

\* Every value is non-empty and has no surrounding whitespace.
CleanValues(ls) == \A i \in 1..Len(ls) : ls[i].value # <<>> /\ Strip(ls[i].value) = ls[i].value

\* C11 as stated: the parameters extracted from KEY=value lines are those
\* extracted from the JSON object of the same keys and values, for every
\* value, empty values and values with surrounding whitespace included.
C11_FormatEquivalence ==
    KeyLinesStart
        => Extracted = _extract_static_tool_params(_as_text(JsonOf(event.start_input.lines)))

\* C11 as amended: the two extractions agree for the values that are not
\* empty and have no surrounding whitespace.
C11_FormatEquivalenceClean ==
    (KeyLinesStart /\ CleanValues(event.start_input.lines))
        => Extracted = _extract_static_tool_params(_as_text(JsonOf(event.start_input.lines)))

C11_Witness ==
    /\ KeyLinesStart
    /\ CleanValues(event.start_input.lines)
    /\ {event.start_input.lines[i].sep : i \in 1..Len(event.start_input.lines)} = {"=", ":"}
    /\ DOMAIN Extracted = {"BRANCH", "GITHUB_OWNER"}
    /\ response.actionEvent = "INVOKE_MODEL"

\* The last step was START, from an empty session, on a JSON record whose
\* recognised keys all hold strings, one at least.
RecordStart ==
    /\ event.state = "START"
    /\ event.sessionAttributes = EmptyMap
    /\ event.start_input.form = "json"
    /\ DOMAIN event.start_input.obj \cap ALL_KEYS # {}
    /\ \A k \in DOMAIN event.start_input.obj \cap ALL_KEYS : event.start_input.obj[k].t = "str"

\* C12: from an empty session, START on a structured record leaves exactly
\* the record's coordinates in the session, each recognised key with the
\* record's value and no other key, whatever other fields (a top-level text
\* field, say) the record has.
C12_RecordCoordinatesStored ==
    RecordStart
        => /\ response.has_context
           /\ DOMAIN response.sessionAttributes = DOMAIN event.start_input.obj \cap ALL_KEYS
           /\ \A k \in DOMAIN event.start_input.obj \cap ALL_KEYS :
                  response.sessionAttributes[k] = event.start_input.obj[k]

\* The tool output handed to the last TOOL_INVOKED step.
ToolOutput == IF event.tool_input.has_text THEN event.tool_input.text ELSE event.tool_input.raw

\* The content block of the follow-up request that carries the tool output.
ToolContentBlock ==
    LET m == response.messages[Len(response.messages)] IN m.content[Len(m.content)]

\* C13: the TOOL_INVOKED step emits a follow-up request whose content block
\* is the first 120,000 characters of a tool output longer than that, and
\* the whole output otherwise.
C13_HeadWithinBudget ==
    event.state = "TOOL_INVOKED"
        => /\ response.actionEvent = "INVOKE_MODEL"
           /\ response.messages # <<>>
           /\ IF Len(ToolOutput) > MAX_TOOL_RESULT_CHARS
              THEN ToolContentBlock = SubSeq(ToolOutput, 1, MAX_TOOL_RESULT_CHARS)
              ELSE ToolContentBlock = ToolOutput

\* The last step was MODEL_INVOKED on a non-empty text that does not parse.
UnparsedStep ==
    /\ event.state = "MODEL_INVOKED"
    /\ ~event.model_input.parses
    /\ event.model_input.raw # <<>>

C15_ModelInvokedNeverRaises ==
    event.state = "MODEL_INVOKED"
        => /\ response.actionEvent \in {"FINISH", "INVOKE_TOOL"}
           /\ response.error = ""
           /\ pc # "FAILED"

\* C16: every output, whichever of INVOKE_MODEL, INVOKE_TOOL and FINISH it
\* is, carries the session state, and after START that session state is
\* the one received, with no coordinate changed and no key removed.
C16_OutputsCarrySession ==
    response.actionEvent \in {"INVOKE_MODEL", "INVOKE_TOOL", "FINISH"}
        => /\ response.has_context
           /\ event.state # "START"
                  => response.sessionAttributes = event.sessionAttributes

\* The handler was invoked a second time with the event of the last step.
Replayed == replay # NotCalled

\* A response with the toolUseId and the final text left out.
SansIdAndText(r) == [r EXCEPT !.toolUseId = "", !.text = <<>>]

\* Both texts list the same missing required keys, in some order.
SameMissingKeys(a, b) ==
    /\ MissingAfterMerge # {}
    /\ \E o1, o2 \in Orders(MissingAfterMerge) : a = MissingText(o1) /\ b = MissingText(o2)

C17_WitnessOrder ==
    /\ Replayed
    /\ response.actionEvent = "FINISH"
    /\ replay.text # response.text

\* What the handler returns for an event when the conversation runs alone.
RunAlone(ev) ==
    CASE ev.state = "START" -> {StartResponse(ev.start_input, ev.sessionAttributes)}
      [] ev.state = "MODEL_INVOKED" ->
             ModelInvokedResponses(ev.model_input, ev.sessionAttributes)
      [] ev.state = "TOOL_INVOKED" ->
             {ToolInvokedResponse(ev.tool_input, ev.sessionAttributes)}
      [] OTHER -> {UnhandledResponse}

\* The values a mapping gives to the recognized coordinate keys.
CoordinateValues(d) == {d[k] : k \in DOMAIN d \cap ALL_KEYS}

\* Every value a conversation holds or was handed under a coordinate key.
CoordinatesSeen(c) ==
    CoordinateValues(convs[c].session_attrs)
        \cup CoordinateValues(convs[c].response.sessionAttributes)
        \cup CoordinateValues(convs[c].response.input)

\* C18: with the steps of two conversations interleaved in any order, each
\* conversation receives the output and keeps the session it would get if
\* it ran alone, and no coordinate of one conversation appears in an
\* action or in the session of the other.
C18_ConversationsIsolated ==
    \A c \in Conversations :
        convs[c].response # NotCalled
            => /\ convs[c].response \in RunAlone(convs[c].event)
               /\ convs[c].session_attrs
                      = Persisted(convs[c].response, convs[c].event.sessionAttributes)
               /\ CoordinatesSeen(c) \subseteq {OwnValue(c)}

\* The second conversation is handed a tool request merged from its own
\* session while the first conversation holds coordinates of its own.
C18_Witness ==
    /\ convs[2].response.actionEvent = "INVOKE_TOOL"
    /\ OwnValue(2) \in CoordinateValues(convs[2].response.input)
    /\ convs[1].pc = "MODEL_INVOKED"
    /\ OwnValue(1) \in CoordinateValues(convs[1].session_attrs)

\* The response record handled by the last step, which was MODEL_INVOKED
\* on a record that holds no tool request.
Answer == Loaded(event.model_input)

NoToolRequested ==
    /\ event.state = "MODEL_INVOKED"
    /\ ~ParseFails(event.model_input)
    /\ Answer.t = "dict"
    /\ ~ToolUseTruthy(_first_tool_use_from_converse_response(Answer))

\* The string text segments of the answer, in order.
Segments == IF Answer.has_content THEN TextsOf(Answer.content) ELSE <<>>

\* r is s without its leading and trailing whitespace.
IsTrimOf(r, s) ==
    /\ r = <<>> \/ (r[1] \notin WS /\ r[Len(r)] \notin WS)
    /\ \E i \in 1..(Len(s) + 1) :
           /\ i + Len(r) - 1 <= Len(s)
           /\ r = SubSeq(s, i, i + Len(r) - 1)
           /\ \A j \in 1..Len(s) : (j < i \/ j >= i + Len(r)) => s[j] \in WS

C19_WitnessFlat ==
    /\ NoToolRequested
    /\ ~JoinWorks(Answer)
    /\ Answer.has_generation
    /\ response.text = <<"FROM">>

\* C20: the TOOL_INVOKED step emits a follow-up request whose message list
\* ends with the assistant instruction and the user block carrying the tool
\* output, preceded by at most the last 10 turns of history, so never more
\* than 12 messages.
C20_BoundedHistoryWindow ==
    event.state = "TOOL_INVOKED"
        => /\ response.actionEvent = "INVOKE_MODEL"
           /\ Len(response.messages) >= 2
           /\ Len(response.messages) <= 10 + 2
           /\ SubSeq(response.messages, Len(response.messages) - 1, Len(response.messages))
                  = ToolMessages(event.tool_input)

\* The last step was MODEL_INVOKED on a record whose message content holds
\* both a text segment and a tool-invocation block.
TextAndToolBlocks ==
    /\ event.state = "MODEL_INVOKED"
    /\ ~ParseFails(event.model_input)
    /\ Answer.t = "dict"
    /\ Answer.has_content
    /\ \E i \in 1..Len(Answer.content) : Answer.content[i].t = "text"
    /\ \E i \in 1..Len(Answer.content) : Answer.content[i].t = "toolUse"

\* The first tool-invocation block of the answer, in content order.
FirstToolBlock ==
    LET idx == {i \in 1..Len(Answer.content) : Answer.content[i].t = "toolUse"}
    IN  Answer.content[CHOOSE i \in idx : \A j \in idx : i <= j].toolUse

\* A FINISH text that explains why no tool was invoked.
Explanatory(text) ==
    /\ text # <<>>
    /\ text[1] \in {"Unexpected tool requested: ", "Missing required ReadFile parameters: "}

\* C21: when the message content holds both text segments and
\* tool-invocation blocks, the step follows the tool path, INVOKE_TOOL or an
\* explanatory FINISH, and never finishes with the text; the request used
\* is the first tool-invocation block, before any top-level toolUse.
C21_ToolBeforeText ==
    TextAndToolBlocks
        => /\ \/ response.actionEvent = "INVOKE_TOOL"
              \/ response.actionEvent = "FINISH" /\ Explanatory(response.text)
           /\ response.actionEvent = "INVOKE_TOOL"
                  => /\ response.name = NameText(FirstToolBlock.name)
                     /\ response.input = MergedToolInput(FirstToolBlock, event.sessionAttributes)

\* The session handed to the last step holds a non-empty value for every
\* required coordinate.
CompleteSession ==
    \A k \in REQ_KEYS :
        k \in DOMAIN event.sessionAttributes /\ NonEmpty(event.sessionAttributes[k])

\* C22: with a session that holds a non-empty value for every required
\* coordinate, every MODEL_INVOKED request naming the recognized tool
\* yields INVOKE_TOOL, whatever the model put in its tool input.
C22_CompleteSessionInvokesTool ==
    (RecognizedRequest /\ CompleteSession) => response.actionEvent = "INVOKE_TOOL"

\* The tool was called and this is what its body parses to.
ToolCalled == tool_response # NoToolResponse

ToolBody == tool_response.body.value

\* The paths of a request that passed every check of the handler: a dict
\* event for the tool readFiles, provider github, a repository identified,
\* and a non-empty list of at most 100 paths.
Accepted ==
    /\ ToolCalled
    /\ ToolName(tool_context) = Str(<<"readFiles">>)
    /\ tool_event.is_dict
    /\ tool_event.provider.t \in {"absent", "str"}
    /\ tool_event.provider.t = "str" => Lower(tool_event.provider.s) = <<"github">>
    /\ _parse_repo(tool_event).error = ""
    /\ tool_event.paths.t = "list"
    /\ Len(tool_event.paths.items) \in 1..MAX_PATHS

\* C23: for every accepted request the tool returns one result record per
\* requested path, in request order, each with its path and exactly one of
\* content and error; no path's failure aborts the call or drops a record.
C23_OneRecordPerPath ==
    Accepted
        => /\ tool_response.statusCode = 200
           /\ ToolBody.has_results
           /\ Len(ToolBody.results) = Len(tool_event.paths.items)
           /\ \A i \in 1..Len(ToolBody.results) :
                  /\ ToolBody.results[i].path = tool_event.paths.items[i]
                  /\ (ToolBody.results[i].content # Null) <=> (ToolBody.results[i].error = Null)

\* The four kinds of bad request.
UnknownToolName == ToolName(tool_context) # Str(<<"readFiles">>)

OtherProvider ==
    /\ tool_event.is_dict
    /\ tool_event.provider.t # "absent"
    /\ ~(tool_event.provider.t = "str" /\ Lower(tool_event.provider.s) = <<"github">>)

WellFormedUrl(v) == v.t = "str" /\ UrlSlash(Strip(v.s)) # 0

NoRepository ==
    /\ tool_event.is_dict
    /\ ~(TruthyValue(tool_event.owner) /\ TruthyValue(tool_event.repo))
    /\ ~WellFormedUrl(tool_event.repo_url)

BadPaths ==
    /\ tool_event.is_dict
    /\ ~(tool_event.paths.t = "list" /\ Len(tool_event.paths.items) \in 1..MAX_PATHS)

BadRequest == UnknownToolName \/ OtherProvider \/ NoRepository \/ BadPaths

\* C24: the entry point returns, for every event and context, a record with
\* a status code and a JSON body: 400 for an unknown tool name, a provider
\* other than github, no repository identification or bad paths; 200 only
\* when files were requested with a valid repository identification; 500
\* for any other failure.
C24_StatusByRequest ==
    ToolCalled
        => /\ tool_response.statusCode \in {200, 400, 500}
           /\ tool_response.body.t = "json"
           /\ BadRequest => tool_response.statusCode = 400
           /\ tool_response.statusCode = 200
                  => (~BadRequest /\ ToolBody.has_results /\ ToolBody.results # <<>>)
           /\ tool_response.statusCode = 500 => ~BadRequest

====
